---- MODULE Spec2Model ----
(***************************************************************************)
(* Model of CaveGame::D3D11Shader                                          *)
(* (Engine/Source/Renderer/Platform/D3D11/D3D11Shader.cpp).                *)
(*                                                                         *)
(* The constructor walks the stage descriptions, skips the ones whose      *)
(* stage already has a module and builds the others through                *)
(* create_shader_module, which compiles source code with D3DCompile or     *)
(* takes precompiled bytecode and then creates the native shader object.   *)
(* The foreign calls (D3DCompile, ID3D11Device::Create*Shader) are         *)
(* nondeterministic: every status / blob combination is explored.          *)
(* A failed CAVE_ASSERT / CAVE_VERIFY terminates the program: the model    *)
(* moves to pc = "aborted" and keeps the locals as they were.              *)
(***************************************************************************)
EXTENDS Integers, Sequences, FiniteSets, TLC

\* ---------------------------------------------------------------- bounds
MaxStages == 3          \* longest ShaderDescription::stages explored
MaxPayload == 1         \* largest source text / bytecode payload of a description
MaxBlobSize == 1        \* largest ID3DBlob returned by D3DCompile
MaxDestructorRuns == 2  \* how often the destruction logic is run

\* ------------------------------------------------------------ vocabulary
ShaderStage == {"Vertex", "Fragment"}

ShaderSourceType == {"SourceCode", "Bytecode", "Invalid"}

\* HRESULT values a foreign call may return: negative is failure.
HRESULTS == -1 .. 1

SUCCEEDED(hr) == hr >= 0

nullptr == 0

\* Stage of the query record before get_shader_module was ever called.
NoQuery == "None"

\* A null ID3DBlob*; a returned blob is its buffer size (0 .. MaxBlobSize).
NoBlob == -1

Blobs == {NoBlob} \cup (0 .. MaxBlobSize)

\* ShaderStageDescription: source_code and source_bytecode_size are the
\* lengths of the payloads; the payload the source type does not use is 0.
ShaderStageDescription ==
    { d \in [stage : ShaderStage, source_type : ShaderSourceType,
             source_code : 0 .. MaxPayload, source_bytecode_size : 0 .. MaxPayload] :
        /\ d.source_type # "SourceCode" => d.source_code = 0
        /\ d.source_type # "Bytecode" => d.source_bytecode_size = 0 }

ShaderDescription ==
    UNION { [1 .. n -> ShaderStageDescription] : n \in 0 .. MaxStages }

VARIABLES
    description,          \* the constructor's argument (description.stages)
    pc,                   \* position of the program
    stage_index,          \* position of the constructor's loop in description.stages
    m_shader_modules,     \* Vector<ShaderModule>: records [stage, handle]
    compilation_result,   \* ShaderCompilationResult [result, bytecode, error_message]
    compiled_bytecode,    \* create_shader_module: Buffer compiled_bytecode (byte count)
    bytecode_size,        \* create_shader_module: usize bytecode_size
    native_objects,       \* the device's shader objects, indexed by handle
    compiled_stages,      \* stage indices D3DCompile was called for
    native_calls,         \* stage indices a Create*Shader call was made for
    failed_stages,        \* stage indices a foreign call returned a failing HRESULT for
    stale_reads,          \* reads of diagnostic memory made after its blob was released
    query,                \* last get_shader_module call: [stage, handle]
    destructor_runs       \* number of runs of the destruction logic

vars == << description, pc, stage_index, m_shader_modules, compilation_result,
           compiled_bytecode, bytecode_size, native_objects, compiled_stages,
           native_calls, failed_stages, stale_reads, query, destructor_runs >>

\* ------------------------------------------------------ missing engine code
\* CAVE_ASSERT / CAVE_VERIFY: a failed contract is fatal, the program stops.
CAVE_ASSERT(condition, next_pc) == IF condition THEN next_pc ELSE "aborted"

\* String::operator=(StringView): the text is copied into storage the
\* String owns; `owned` tells whether the text lives in such storage.
StringAssign(view) == [length |-> view.length, owned |-> TRUE]

EmptyString == [length |-> 0, owned |-> TRUE]

EmptyCompilationResult ==
    [result |-> 0, bytecode |-> 0, error_message |-> EmptyString]

\* ------------------------------------------------------------- constructor
StageAlreadyExists_LastOnly(modules, stage) ==
    /\ modules # << >>
    /\ modules[Len(modules)].stage = stage

StageAlreadyExists_Never(modules, stage) == FALSE

\* The scan of m_shader_modules for a module of the description's stage.
StageAlreadyExists(modules, stage) ==
    \E k \in DOMAIN modules : modules[k].stage = stage

CurrentStage == description[stage_index]

Init ==
    /\ description \in ShaderDescription
    /\ pc = "ctor"
    /\ stage_index = 1
    /\ m_shader_modules = << >>
    /\ compilation_result = EmptyCompilationResult
    /\ compiled_bytecode = 0
    /\ bytecode_size = 0
    /\ native_objects = << >>
    /\ compiled_stages = {}
    /\ native_calls = {}
    /\ failed_stages = {}
    /\ stale_reads = 0
    /\ query = [stage |-> NoQuery, handle |-> nullptr]
    /\ destructor_runs = 0

\* The description is for a stage that already exists: it is ignored.
SkipDuplicateStage ==
    /\ pc = "ctor"
    /\ stage_index <= Len(description)
    /\ StageAlreadyExists(m_shader_modules, CurrentStage.stage)
    /\ stage_index' = stage_index + 1
    /\ UNCHANGED << description, pc, m_shader_modules, compilation_result,
                    compiled_bytecode, bytecode_size, native_objects,
                    compiled_stages, native_calls, failed_stages, stale_reads,
                    query, destructor_runs >>

SourceAccepted_NoBytecodeCheck(d) ==
    CASE d.source_type = "SourceCode" -> d.source_code # 0
      [] d.source_type = "Bytecode" -> TRUE
      [] OTHER -> FALSE

\* The contracts create_shader_module places on the description's source.
SourceAccepted(d) ==
    CASE d.source_type = "SourceCode" -> d.source_code # 0
      [] d.source_type = "Bytecode" -> d.source_bytecode_size > 0
      [] OTHER -> FALSE

\* Entry of create_shader_module for a stage that has no module yet: the
\* source type is examined; bytecode goes straight to the native call.
BeginCreateShaderModule ==
    /\ pc = "ctor"
    /\ stage_index <= Len(description)
    /\ ~ StageAlreadyExists(m_shader_modules, CurrentStage.stage)
    /\ pc' = CAVE_ASSERT(SourceAccepted(CurrentStage),
                         IF CurrentStage.source_type = "SourceCode"
                         THEN "compile" ELSE "native")
    /\ bytecode_size' = IF CurrentStage.source_type = "Bytecode" /\ pc' # "aborted"
                        THEN CurrentStage.source_bytecode_size ELSE 0
    /\ UNCHANGED << description, stage_index, m_shader_modules, compilation_result,
                    compiled_bytecode, native_objects, compiled_stages,
                    native_calls, failed_stages, stale_reads, query,
                    destructor_runs >>

\* ---------------------------------------------------- compile_shader_module
\* The native compiler's outputs: a status and two optional blobs.
D3DCompile ==
    [result_code : HRESULTS, bytecode_blob : Blobs, error_message_blob : Blobs]

\* Buffer::copy of the bytecode blob, when there is one.
BytecodeFromBlob(bytecode_blob) ==
    IF bytecode_blob = NoBlob THEN 0 ELSE bytecode_blob

\* StringView::create_from_utf8 over the blob's memory.
StringView(blob, blob_live) == [length |-> blob, live |-> blob_live]

ErrorMessageFromBlob_ReleaseFirst(error_message_blob) ==
    IF error_message_blob = NoBlob
    THEN [error_message |-> EmptyString, stale |-> 0]
    ELSE LET error_message_view == StringView(error_message_blob, FALSE)
         IN  [error_message |-> StringAssign(error_message_view),
              stale |-> IF error_message_view.live THEN 0 ELSE 1]

\* The diagnostic blob's text is assigned to the result while the blob is
\* live; the blob is released afterwards. `stale` counts the reads the
\* assignment makes of released memory.
ErrorMessageFromBlob(error_message_blob) ==
    IF error_message_blob = NoBlob
    THEN [error_message |-> EmptyString, stale |-> 0]
    ELSE LET error_message_view == StringView(error_message_blob, TRUE)
         IN  [error_message |-> StringAssign(error_message_view),
              stale |-> IF error_message_view.live THEN 0 ELSE 1]

compile_shader_module(out) ==
    [result |-> out.result_code,
     bytecode |-> BytecodeFromBlob(out.bytecode_blob),
     error_message |-> ErrorMessageFromBlob(out.error_message_blob).error_message]

\* create_shader_module calls compile_shader_module, which calls D3DCompile.
CompileShaderModule ==
    /\ pc = "compile"
    /\ \E out \in D3DCompile :
         /\ compilation_result' = compile_shader_module(out)
         /\ stale_reads' = stale_reads + ErrorMessageFromBlob(out.error_message_blob).stale
         /\ failed_stages' = IF SUCCEEDED(out.result_code) THEN failed_stages
                             ELSE failed_stages \cup {stage_index}
    /\ compiled_stages' = compiled_stages \cup {stage_index}
    /\ pc' = "compiled"
    /\ UNCHANGED << description, stage_index, m_shader_modules, compiled_bytecode,
                    bytecode_size, native_objects, native_calls, query,
                    destructor_runs >>

CompilationAccepted_StatusIgnored(result) == result.error_message.length = 0

\* The two contracts on the compilation result: no diagnostic text, and a
\* succeeding status.
CompilationAccepted(result) ==
    /\ result.error_message.length = 0
    /\ SUCCEEDED(result.result)

\* Reading the result's diagnostic text touches released memory when the
\* text is not in storage the result owns (the blob is gone by now).
ReadErrorMessage(result) ==
    IF result.error_message.owned \/ result.error_message.length = 0 THEN 0 ELSE 1

\* create_shader_module after the compilation: the checks of the result,
\* then the bytecode is moved out of it.
CheckCompilation ==
    /\ pc = "compiled"
    /\ stale_reads' = stale_reads + ReadErrorMessage(compilation_result)
    /\ pc' = CAVE_ASSERT(CompilationAccepted(compilation_result), "native")
    /\ IF pc' = "native"
       THEN /\ compiled_bytecode' = compilation_result.bytecode
            /\ compilation_result' = [compilation_result EXCEPT !.bytecode = 0]
            /\ bytecode_size' = compilation_result.bytecode
       ELSE UNCHANGED << compiled_bytecode, compilation_result, bytecode_size >>
    /\ UNCHANGED << description, stage_index, m_shader_modules, native_objects,
                    compiled_stages, native_calls, failed_stages, query,
                    destructor_runs >>

\* The contract on the HRESULT of CreateVertexShader / CreatePixelShader.
NativeCreationAccepted(hr) == SUCCEEDED(hr)

\* The switch on the stage: the native shader object is created from the
\* bytecode, the compiled bytecode buffer is released, the module is
\* returned and the constructor adds it to m_shader_modules.
CreateNativeShader ==
    /\ pc = "native"
    /\ native_calls' = native_calls \cup {stage_index}
    /\ \E hr \in HRESULTS :
         /\ failed_stages' = IF SUCCEEDED(hr) THEN failed_stages
                             ELSE failed_stages \cup {stage_index}
         /\ pc' = CAVE_ASSERT(NativeCreationAccepted(hr), "ctor")
         /\ IF pc' = "ctor"
            THEN /\ native_objects' =
                      IF SUCCEEDED(hr)
                      THEN Append(native_objects,
                                  [stage |-> CurrentStage.stage,
                                   from |-> stage_index, releases |-> 0])
                      ELSE native_objects
                 /\ m_shader_modules' =
                      Append(m_shader_modules,
                             [stage |-> CurrentStage.stage,
                              handle |-> IF SUCCEEDED(hr)
                                         THEN Len(native_objects) + 1
                                         ELSE nullptr])
                 /\ compiled_bytecode' = 0
                 /\ compilation_result' = EmptyCompilationResult
                 /\ bytecode_size' = 0
                 /\ stage_index' = stage_index + 1
            ELSE UNCHANGED << native_objects, m_shader_modules, compiled_bytecode,
                              compilation_result, bytecode_size, stage_index >>
    /\ UNCHANGED << description, compiled_stages, stale_reads, query,
                    destructor_runs >>

\* The loop over description.stages is over: the constructor returns.
FinishConstruction ==
    /\ pc = "ctor"
    /\ stage_index > Len(description)
    /\ pc' = "ready"
    /\ UNCHANGED << description, stage_index, m_shader_modules, compilation_result,
                    compiled_bytecode, bytecode_size, native_objects,
                    compiled_stages, native_calls, failed_stages, stale_reads,
                    query, destructor_runs >>

\* -------------------------------------------------------- get_shader_module
RECURSIVE FirstModuleOf(_, _, _)
FirstModuleOf(modules, stage, k) ==
    IF k > Len(modules) THEN nullptr
    ELSE IF modules[k].stage = stage THEN modules[k].handle
    ELSE FirstModuleOf(modules, stage, k + 1)

get_shader_module_FirstModule(modules, stage) ==
    IF modules = << >> THEN nullptr ELSE modules[1].handle

get_shader_module(modules, stage) == FirstModuleOf(modules, stage, 1)

GetShaderModule ==
    /\ pc = "ready"
    /\ \E stage \in ShaderStage :
         query' = [stage |-> stage,
                   handle |-> get_shader_module(m_shader_modules, stage)]
    /\ UNCHANGED << description, pc, stage_index, m_shader_modules,
                    compilation_result, compiled_bytecode, bytecode_size,
                    native_objects, compiled_stages, native_calls, failed_stages,
                    stale_reads, destructor_runs >>

\* --------------------------------------------------------------- destructor
\* CAVE_D3D11_RELEASE on every stored module's handle, in order.
RECURSIVE ReleaseModules(_, _, _)
ReleaseModules(objects, modules, k) ==
    IF k > Len(modules) THEN objects
    ELSE LET h == modules[k].handle
         IN  ReleaseModules(
                 IF h = nullptr THEN objects
                 ELSE [objects EXCEPT ![h].releases = @ + 1],
                 modules, k + 1)

clear_and_shrink_Nothing(modules) == modules

clear_and_shrink(modules) == << >>

\* ~D3D11Shader; the destruction logic may be run again on the destroyed
\* object (an explicit destructor call).
Destructor ==
    /\ pc \in {"ready", "destroyed"}
    /\ destructor_runs < MaxDestructorRuns
    /\ native_objects' = ReleaseModules(native_objects, m_shader_modules, 1)
    /\ m_shader_modules' = clear_and_shrink(m_shader_modules)
    /\ destructor_runs' = destructor_runs + 1
    /\ pc' = "destroyed"
    /\ UNCHANGED << description, stage_index, compilation_result, compiled_bytecode,
                    bytecode_size, compiled_stages, native_calls, failed_stages,
                    stale_reads, query >>

Next ==
    \/ SkipDuplicateStage
    \/ BeginCreateShaderModule
    \/ CompileShaderModule
    \/ CheckCompilation
    \/ CreateNativeShader
    \/ FinishConstruction
    \/ GetShaderModule
    \/ Destructor

Spec == Init /\ [][Next]_vars

\* ================================================================ properties
DistinctKinds == { description[i].stage : i \in DOMAIN description }

\* The description at i repeats the stage of an earlier description.
Duplicate(i) == \E j \in 1 .. (i - 1) : description[j].stage = description[i].stage

FirstIndexOf(stage) ==
    CHOOSE i \in DOMAIN description :
        description[i].stage = stage /\ ~ Duplicate(i)

Malformed(d) ==
    \/ d.source_type = "SourceCode" /\ d.source_code = 0
    \/ d.source_type = "Bytecode" /\ d.source_bytecode_size = 0
    \/ d.source_type \notin {"SourceCode", "Bytecode"}

\* The constructor has started on the description at i.
Begun(i) == stage_index > i \/ (stage_index = i /\ pc # "ctor")

ModulesOf(stage) == { k \in DOMAIN m_shader_modules : m_shader_modules[k].stage = stage }

\* C1: when the constructor completes, the module list holds exactly one
\* module per distinct stage of the description, each created from the
\* first description of its stage, and no later description of a stage
\* contributed a module or a native object.
C1_OneModulePerKindFromFirst ==
    pc = "ready" =>
        /\ Len(m_shader_modules) = Cardinality(DistinctKinds)
        /\ \A s \in DistinctKinds : Cardinality(ModulesOf(s)) = 1
        /\ \A k \in DOMAIN m_shader_modules :
             LET m == m_shader_modules[k]
             IN  /\ m.stage \in DistinctKinds
                 /\ m.handle \in DOMAIN native_objects
                 /\ native_objects[m.handle].stage = m.stage
                 /\ native_objects[m.handle].from = FirstIndexOf(m.stage)
        /\ native_calls = { FirstIndexOf(s) : s \in DistinctKinds }
        /\ Len(native_objects) = Cardinality(DistinctKinds)

\* [ (Vertex, A), (Vertex, B), (Fragment, C) ] with A # B was constructed.
C1_Witness ==
    /\ pc = "ready"
    /\ Len(description) = 3
    /\ description[1].stage = description[2].stage
    /\ description[1] # description[2]
    /\ description[3].stage # description[1].stage
    /\ Len(m_shader_modules) = 2

\* What get_shader_module has to answer for the queried stage.
LookupAnswer(q) ==
    IF ModulesOf(q.stage) # {}
    THEN /\ q.handle # nullptr
         /\ \E k \in ModulesOf(q.stage) : m_shader_modules[k].handle = q.handle
    ELSE q.handle = nullptr

\* C2: in the Ready state get_shader_module(stage) answers the handle of
\* the stored module of that stage, which is not null, and null when no
\* module of that stage is stored; the call leaves the modules and the
\* native objects as they are, so the answer stays the answer.
C2_LookupCorrectAndReadOnly ==
    /\ [](pc = "ready" /\ query.stage # NoQuery => LookupAnswer(query))
    /\ [][pc = "ready" /\ pc' = "ready" =>
            UNCHANGED << m_shader_modules, native_objects, description >>]_vars

\* The second module of a two-module program was looked up.
C2_Witness ==
    /\ pc = "ready"
    /\ Len(m_shader_modules) = 2
    /\ query.stage = m_shader_modules[2].stage
    /\ query.handle = m_shader_modules[2].handle
    /\ query.handle # nullptr

\* C3: destroying a Ready shader releases every native handle of its
\* module list exactly once and empties the module storage, so that a
\* second run of the destruction logic releases nothing.
C3_ReleasedExactlyOnce ==
    /\ \A h \in DOMAIN native_objects : native_objects[h].releases <= 1
    /\ destructor_runs = 0 =>
         \A h \in DOMAIN native_objects : native_objects[h].releases = 0
    /\ destructor_runs >= 1 =>
         /\ m_shader_modules = << >>
         /\ \A h \in DOMAIN native_objects : native_objects[h].releases = 1

\* A program of two modules went through the destruction logic twice.
C3_Witness ==
    /\ destructor_runs = 2
    /\ Len(native_objects) = 2

\* C4: once the compiler or the native create-shader call has returned a
\* failing status for a stage, construction stops at that stage: the only
\* positions left are the check that aborts and the abort itself, no
\* module or native object exists for the stage, and no foreign call is
\* made for a later stage; Ready is never reached.
C4_NoReadyAfterFatal ==
    failed_stages # {} =>
        /\ pc \in {"compiled", "aborted"}
        /\ failed_stages = {stage_index}
        /\ \A h \in DOMAIN native_objects : native_objects[h].from < stage_index
        /\ \A k \in DOMAIN m_shader_modules :
             /\ m_shader_modules[k].handle \in DOMAIN native_objects
             /\ native_objects[m_shader_modules[k].handle].from < stage_index
        /\ \A i \in compiled_stages \cup native_calls : i <= stage_index

\* The native call failed for the second stage of a program whose first
\* stage had been built.
C4_Witness ==
    /\ pc = "aborted"
    /\ stage_index \in native_calls
    /\ stage_index \in failed_stages
    /\ Len(m_shader_modules) = 1

\* C5: a compilation that succeeds with diagnostic text does not abort
\* construction.
C5_WarningDoesNotBlock ==
    ( /\ stage_index \in compiled_stages
      /\ SUCCEEDED(compilation_result.result)
      /\ compilation_result.error_message.length > 0 )
    => pc # "aborted"

\* C6: a malformed description that reaches create_shader_module aborts
\* construction before D3DCompile or a Create*Shader call is made for it,
\* and no module with a null handle is ever stored.
C6_MalformedRejectedBeforeCalls ==
    /\ \A i \in DOMAIN description :
         (Malformed(description[i]) /\ ~ Duplicate(i) /\ Begun(i)) =>
             /\ pc = "aborted"
             /\ stage_index = i
             /\ i \notin compiled_stages \cup native_calls
    /\ \A k \in DOMAIN m_shader_modules : m_shader_modules[k].handle # nullptr

\* A zero-length bytecode stage was rejected after a first stage was built.
C6_Witness ==
    /\ pc = "aborted"
    /\ Len(m_shader_modules) = 1
    /\ description[stage_index].source_type = "Bytecode"
    /\ description[stage_index].source_bytecode_size = 0

C8_BytecodeReleasedOnEveryExit ==
    (pc \in {"ctor", "ready", "destroyed"} \/ (pc = "aborted" /\ stage_index \in native_calls)) =>
        /\ compiled_bytecode = 0
        /\ compilation_result.bytecode = 0

\* C9: a compilation result with a failing status has an empty bytecode
\* buffer.
C9_BytecodeOnlyOnSuccess ==
    (stage_index \in compiled_stages /\ ~ SUCCEEDED(compilation_result.result))
    => compilation_result.bytecode = 0

\* C10: a description whose stage already has a module is skipped before
\* anything else: no validation aborts on it, no D3DCompile and no
\* Create*Shader call is made for it, and no module comes from it.
C10_DuplicateSkippedUntouched ==
    \A i \in DOMAIN description :
        (Duplicate(i) /\ stage_index >= i) =>
            /\ i \notin compiled_stages \cup native_calls
            /\ stage_index = i => pc = "ctor"
            /\ \A h \in DOMAIN native_objects : native_objects[h].from # i

\* A malformed duplicate was skipped and the constructor completed.
C10_Witness ==
    /\ pc = "ready"
    /\ \E i \in DOMAIN description : Duplicate(i) /\ Malformed(description[i])

====
